---- MODULE Spec2Model ----
(***************************************************************************)
(* The invoice extraction pipeline of src/main.py: one request of          *)
(* extract_invoice driving submit_document, the polling loop over          *)
(* check_status, retrieve_text and parse_invoice_items, with the OCR       *)
(* service and the LLM service as the environment that answers each call.  *)
(***************************************************************************)
EXTENDS Integers, Sequences, FiniteSets, TLC

(* ------------------------------ bounds -------------------------------- *)

\* How many distinct upstream response bodies the environment may send.
NumBodies == 2
\* How many distinct job handles the OCR service may hand out.
NumHandles == 2

\* How many requests the service handles concurrently.
NumRequests == 2
\* In the service-level specification, how many status polls of one request
\* the OCR service may answer accepted or processing.
MaxConcPolls == 2

Bodies == 1..NumBodies
Handles == 1..NumHandles
Requests == 1..NumRequests

(* ------------------------- program constants --------------------------- *)

\* max_attempts = 150 in extract_invoice
max_attempts == 150
\* AsyncOpenAI(..., max_retries=2)
max_retries == 2

(* --------------------------- the environment --------------------------- *)

\* The texts of upstream response bodies.
BodyTexts == { "body" \o ToString(b) : b \in Bodies }

\* Transport status codes the OCR service may answer with.
OcrStatusCodes == {200, 202, 400, 408, 500}

\* The values of the "status" field of a whisper-status answer; "None" is
\* what dict.get("status") gives for an answer without the field.
StatusValues == {"accepted", "processing", "processed", "weird", "None"}

\* The answers to POST /whisper: any status code, any body, and a JSON
\* document that holds a whisper_hash or does not; or no answer at all,
\* when the HTTP client raises (connection failure, its own timeout).
SubmitResponses ==
    { [received |-> TRUE, status_code |-> c, text |-> b, has_hash |-> hh,
       whisper_hash |-> h] :
        c \in OcrStatusCodes, b \in BodyTexts, hh \in BOOLEAN, h \in Handles }
    \cup { [received |-> FALSE, status_code |-> 0, text |-> "",
            has_hash |-> FALSE, whisper_hash |-> 0] }

\* The answers to GET /whisper-status.
StatusResponses ==
    { [received |-> TRUE, status_code |-> c, text |-> b, status |-> s] :
        c \in OcrStatusCodes, b \in BodyTexts, s \in StatusValues }
    \cup { [received |-> FALSE, status_code |-> 0, text |-> "",
            status |-> "None"] }

\* The answers to GET /whisper-retrieve.
RetrieveResponses ==
    { [received |-> TRUE, status_code |-> c, text |-> b] :
        c \in OcrStatusCodes, b \in BodyTexts }
    \cup { [received |-> FALSE, status_code |-> 0, text |-> ""] }

\* Error statuses the LLM service may answer a completion request with.
LlmErrorCodes == {400, 429, 500, 502}

\* What one completion request sent to the LLM service ends in: an answer
\* whose content is JSON or is not, no answer within the 300 s window, a
\* connection that fails, or an error status with a body.
LlmOutcomes ==
    { [kind |-> "answer", status |-> 200, text |-> t] :
        t \in {"{json}", "not json"} }
    \cup { [kind |-> k, status |-> 0, text |-> ""] :
        k \in {"timeout", "connection"} }
    \cup { [kind |-> "status", status |-> c, text |-> t] :
        c \in LlmErrorCodes, t \in BodyTexts \cup {"Bad Gateway"} }

(* ----------------------- exceptions and outcomes ----------------------- *)

\* An exception: its class, its status code (HTTPException only) and its
\* message, a sequence of the pieces the f-string joins.
HTTPException(code, detail) ==
    [type |-> "HTTPException", status_code |-> code, detail |-> detail]

\* An exception that is not an HTTPException (KeyError, JSONDecodeError,
\* the LLM client's errors).
PlainException(type, msg) ==
    [type |-> type, status_code |-> 0, detail |-> msg]

NoError == PlainException("", <<>>)

Return(v) == [kind |-> "return", value |-> v, exc |-> NoError]
Raise(e) == [kind |-> "raise", value |-> "", exc |-> e]

\* What the framework answers for an exception escaping the endpoint: an
\* HTTPException's own status code, 500 for anything else.
ResponseStatus(e) ==
    IF e.type = "HTTPException" THEN e.status_code ELSE 500

\* What `await client.post` or `await client.get` raises when no answer
\* arrives; no function of the program catches it.
TransportError == PlainException("httpx.TransportError", <<"no response">>)

\* "tok" in msg, on the pieces of the message.
Contains(msg, tok) == \E i \in 1..Len(msg) : msg[i] = tok

(* ----------------------------- OCR client ------------------------------ *)

submit_document_accepts_any_2xx(response) ==
    IF ~response.received THEN Raise(TransportError)
    ELSE IF response.status_code \notin {200, 202}
    THEN Raise(HTTPException(response.status_code,
                             <<"Failed to submit document: ", response.text>>))
    ELSE IF ~response.has_hash
    THEN Raise(PlainException("KeyError", <<"whisper_hash">>))
    ELSE Return(response.whisper_hash)

submit_document_defaults_missing_hash(response) ==
    IF ~response.received THEN Raise(TransportError)
    ELSE IF response.status_code # 202
    THEN Raise(HTTPException(response.status_code,
                             <<"Failed to submit document: ", response.text>>))
    ELSE IF ~response.has_hash
    THEN Return(0)
    ELSE Return(response.whisper_hash)

submit_document(response) ==
    IF ~response.received THEN Raise(TransportError)
    ELSE IF response.status_code # 202
    THEN Raise(HTTPException(response.status_code,
                             <<"Failed to submit document: ", response.text>>))
    ELSE IF ~response.has_hash
    THEN Raise(PlainException("KeyError", <<"whisper_hash">>))
    ELSE Return(response.whisper_hash)

check_status_hides_upstream_code(response) ==
    IF ~response.received THEN Raise(TransportError)
    ELSE IF response.status_code # 200
    THEN Raise(HTTPException(500,
                             <<"Failed to check status: ", response.text>>))
    ELSE Return(response.status)

check_status(response) ==
    IF ~response.received THEN Raise(TransportError)
    ELSE IF response.status_code # 200
    THEN Raise(HTTPException(response.status_code,
                             <<"Failed to check status: ", response.text>>))
    ELSE Return(response.status)

retrieve_text(response) ==
    IF ~response.received THEN Raise(TransportError)
    ELSE IF response.status_code # 200
    THEN Raise(HTTPException(response.status_code,
                             <<"Failed to retrieve text: ", response.text>>))
    ELSE Return(response.text)

(* ------------------------ LLM structuring client ----------------------- *)

\* The client library resends a request that timed out, whose connection
\* failed, or that was answered 408, 409, 429 or 5xx.
should_retry(o) ==
    \/ o.kind \in {"timeout", "connection"}
    \/ o.kind = "status" /\ (o.status \in {408, 409, 429} \/ o.status >= 500)

\* The exception the client raises for a request it gives up on.
client_exception(o) ==
    CASE o.kind = "timeout" ->
           PlainException("APITimeoutError", <<"Request timed out.">>)
      [] o.kind = "connection" ->
           PlainException("APIConnectionError", <<"Connection error.">>)
      [] OTHER ->
           PlainException(
               CASE o.status = 429 -> "RateLimitError"
                 [] o.status >= 500 -> "InternalServerError"
                 [] OTHER -> "BadRequestError",
               <<"Error code: ", ToString(o.status), " - ", o.text>>)

\* openai_client.chat.completions.create after one more request ended in
\* o, with `taken` retries already spent: it returns the answer's content,
\* sends the request again, or raises.
create(o, taken) ==
    IF o.kind = "answer" THEN Return(o.text)
    ELSE IF should_retry(o) /\ taken < max_retries
    THEN [kind |-> "retry", value |-> "", exc |-> NoError]
    ELSE Raise(client_exception(o))

\* The classes `except TimeoutError` catches: the builtin and its
\* subclasses. The LLM client's APITimeoutError derives from
\* APIConnectionError, not from the builtin.
TimeoutErrorClasses == {"TimeoutError"}

GatewayTimeout ==
    HTTPException(504, <<"OpenAI API timeout after ", "elapsed",
        "s. The document may be too large to process in time.">>)

ServiceUnavailable ==
    HTTPException(502, <<"OpenAI service temporarily unavailable (502 Bad Gateway). This may be a temporary issue - please try again.">>)

GenericLlmError(e) ==
    HTTPException(500, <<"OpenAI API error: ", e.type, " - ">> \o e.detail)

parse_invoice_items_coerces_bad_json(out) ==
    IF out.kind = "raise"
    THEN IF out.exc.type \in TimeoutErrorClasses
         THEN Raise(GatewayTimeout)
         ELSE IF Contains(out.exc.detail, "502")
                 \/ Contains(out.exc.detail, "Bad Gateway")
         THEN Raise(ServiceUnavailable)
         ELSE Raise(GenericLlmError(out.exc))
    ELSE [kind |-> "return",
          value |-> [success |-> TRUE,
                     data |-> IF out.value # "{json}" THEN "{}" ELSE out.value],
          exc |-> NoError]

\* parse_invoice_items from the point where create has returned or raised.
parse_invoice_items(out) ==
    IF out.kind = "raise"
    THEN IF out.exc.type \in TimeoutErrorClasses
         THEN Raise(GatewayTimeout)
         ELSE IF Contains(out.exc.detail, "502")
                 \/ Contains(out.exc.detail, "Bad Gateway")
         THEN Raise(ServiceUnavailable)
         ELSE Raise(GenericLlmError(out.exc))
    ELSE IF out.value # "{json}"
    THEN Raise(PlainException("JSONDecodeError", <<"Expecting value">>))
    ELSE [kind |-> "return", value |-> [success |-> TRUE, data |-> out.value],
          exc |-> NoError]

(* -------------------------- the orchestrator --------------------------- *)

VARIABLES
    pc,              \* where extract_invoice stands: "submit", "poll",
                     \* "sleep", "retrieve", "structure", "done", "failed"
    whisper_hash,    \* the job handle submit_document returned (0: none yet)
    attempt,         \* the polling loop's counter
    extracted_text,  \* what retrieve_text returned ("": nothing yet)
    retries_taken,   \* retries the LLM client has spent on the current call
    result,          \* the content of the JSONResponse returned
    error,           \* the exception that ended the request
    \* history of the run, written by no line of the program
    failedAt,        \* the stage whose failure ended the request
    submitResponse,  \* status code and body the OCR service answered submit
                     \* with, and whether the body held a whisper_hash
    lastResponse,    \* status code and body of the last status or retrieve answer
    lastStatus,      \* the status value of the last 200 status answer
    processedSeen,   \* a status poll was answered 200 with "processed"
    retrieveOk,      \* retrieve was answered 200
    llmLast,         \* how the last completion request ended
    submitCalls, statusCalls, retrieveCalls,  \* requests sent to the OCR service
    structCalls,     \* calls of parse_invoice_items
    llmRequests,     \* completion requests sent to the LLM service
    llmFailures,     \* completion requests that ended without an answer
    nonTerminal,     \* status polls answered 200 with accepted or processing
    waits,           \* inter-poll sleeps completed
    \* the service as a whole: the process and its endpoints
    keys,            \* LLMWHISPERER_API_KEY and OPENAI_API_KEY as os.getenv gave them
    server,          \* "importing", "serving" or "crashed"
    reqs,            \* the extract_invoice coroutines in flight, one record each
    health,          \* the last answer of health_check
    probe            \* the test_openai call in flight or last returned

\* The variables of one request followed stage by stage.
rvars == <<pc, whisper_hash, attempt, extracted_text, retries_taken, result,
           error, failedAt, submitResponse, lastResponse, lastStatus,
           processedSeen, retrieveOk, llmLast, submitCalls, statusCalls,
           retrieveCalls, structCalls, llmRequests, llmFailures, nonTerminal,
           waits>>

\* The variables of the service.
svars == <<keys, server, reqs, health, probe>>

vars == <<rvars, svars>>

NoResponse == [status_code |-> 0, text |-> ""]
NoSubmitResponse == [status_code |-> 0, text |-> "", has_hash |-> FALSE]
NoResult == [success |-> FALSE, data |-> ""]
NoOutcome == [kind |-> "none", status |-> 0, text |-> ""]

\* What os.getenv gives for a credential: None when it is not set, the
\* empty string, or a key.
KeyValues == {"None", "", "key"}

\* bool(v) of a credential.
Truthy(v) == v \notin {"None", ""}

\* An extract_invoice coroutine that has not started: its locals
\* (whisper_hash, attempt, the LLM client's retry count), the OCR client
\* sessions it holds open, and, as history, the handle its submit was
\* answered with, the handle its last status or retrieve call carried, the
\* number of its status polls answered accepted or processing, and the
\* transport status its caller was answered with.
NewRequest ==
    [pc |-> "idle", whisper_hash |-> 0, attempt |-> 0, retries_taken |-> 0,
     open |-> 0, issued |-> 0, sent |-> 0, answered |-> 0, status |-> 0]

NoHealth ==
    [status |-> "none", llmwhisperer_key_set |-> FALSE,
     openai_key_set |-> FALSE]

\* test_openai not called yet: where it stands, the LLM client's retry
\* count, the "status" of the value it returned, whether an exception left
\* it, and, as history, how the completion request that ended it ended and
\* the calls it sent to the OCR service.
NoProbe ==
    [pc |-> "idle", retries_taken |-> 0, status |-> "none", raised |-> FALSE,
     last |-> "none", ocr_calls |-> 0]

\* The process is up with both credentials set and no endpoint in use.
ServiceUp ==
    /\ keys = [ocr |-> "key", llm |-> "key"]
    /\ server = "serving"
    /\ reqs = [r \in Requests |-> NewRequest]
    /\ health = NoHealth
    /\ probe = NoProbe

\* The request has been received and its file read; nothing was sent yet.
RequestInit ==
    /\ pc = "submit"
    /\ whisper_hash = 0
    /\ attempt = 0
    /\ extracted_text = ""
    /\ retries_taken = 0
    /\ result = NoResult
    /\ error = NoError
    /\ failedAt = "none"
    /\ submitResponse = NoSubmitResponse
    /\ lastResponse = NoResponse
    /\ lastStatus = "none"
    /\ processedSeen = FALSE
    /\ retrieveOk = FALSE
    /\ llmLast = NoOutcome
    /\ submitCalls = 0
    /\ statusCalls = 0
    /\ retrieveCalls = 0
    /\ structCalls = 0
    /\ llmRequests = 0
    /\ llmFailures = 0
    /\ nonTerminal = 0
    /\ waits = 0

Init == RequestInit /\ ServiceUp

\* Where control goes next: on to a stage, or out with an exception.
Goto(p) == [pc |-> p, error |-> NoError, failedAt |-> "none"]
Failure(stage, e) == [pc |-> "failed", error |-> e, failedAt |-> stage]

ProcessingTimeout_as_500 == HTTPException(500, <<"Processing timeout">>)

\* raise HTTPException(status_code=408, detail="Processing timeout")
ProcessingTimeout == HTTPException(408, <<"Processing timeout">>)

UnexpectedStatus(status) == HTTPException(500, <<"Unexpected status: ", status>>)

loop_continues_off_by_one(a) == a <= max_attempts

\* while attempt < max_attempts
loop_continues(a) == a < max_attempts

budget_exhausted_off_by_one(a) == a >= max_attempts - 1

\* if attempt >= max_attempts
budget_exhausted(a) == a >= max_attempts

\* After the loop: the timeout, or on to retrieve_text.
LoopExit(a) ==
    IF budget_exhausted(a)
    THEN Failure("poll_timeout", ProcessingTimeout)
    ELSE Goto("retrieve")

\* At the head of the loop with attempt = a.
LoopHead(a) == IF loop_continues(a) THEN Goto("poll") ELSE LoopExit(a)

poll_body_tolerates_unknown(status, a) ==
    IF status = "processed"
    THEN [next |-> "break", attempt |-> a]
    ELSE [next |-> "sleep", attempt |-> a + 1]

poll_body_breaks_on_accepted(status, a) ==
    IF status \in {"processed", "accepted"}
    THEN [next |-> "break", attempt |-> a]
    ELSE IF status \in {"processing"}
    THEN [next |-> "sleep", attempt |-> a + 1]
    ELSE [next |-> "raise", attempt |-> a]

poll_body_never_counts(status, a) ==
    IF status = "processed"
    THEN [next |-> "break", attempt |-> a]
    ELSE IF status \in {"processing", "accepted"}
    THEN [next |-> "sleep", attempt |-> a]
    ELSE [next |-> "raise", attempt |-> a]

\* The loop body once check_status returned `status`.
poll_body(status, a) ==
    IF status = "processed"
    THEN [next |-> "break", attempt |-> a]
    ELSE IF status \in {"processing", "accepted"}
    THEN [next |-> "sleep", attempt |-> a + 1]
    ELSE [next |-> "raise", attempt |-> a]

\* whisper_hash = await submit_document(file_content), then the loop's head.
Submit ==
    /\ pc = "submit"
    /\ \E response \in SubmitResponses :
         LET out == submit_document(response)
             to == IF out.kind = "raise" THEN Failure("submit", out.exc)
                   ELSE LoopHead(0)
         IN /\ submitCalls' = submitCalls + 1
            /\ submitResponse' = [status_code |-> response.status_code,
                                  text |-> response.text,
                                  has_hash |-> response.has_hash]
            /\ whisper_hash' = IF out.kind = "raise" THEN whisper_hash
                               ELSE out.value
            /\ attempt' = 0
            /\ pc' = to.pc
            /\ error' = to.error
            /\ failedAt' = to.failedAt
    /\ UNCHANGED <<extracted_text, retries_taken, result, lastResponse,
                   lastStatus, processedSeen, retrieveOk, llmLast,
                   statusCalls, retrieveCalls, structCalls, llmRequests,
                   llmFailures, nonTerminal, waits>>
    /\ UNCHANGED svars

\* status_response = await check_status(whisper_hash) and the branch on it.
CheckStatus ==
    /\ pc = "poll"
    /\ \E response \in StatusResponses :
         LET out == check_status(response)
             step == poll_body(out.value, attempt)
             to == IF out.kind = "raise" THEN Failure("status", out.exc)
                   ELSE IF step.next = "break" THEN LoopExit(step.attempt)
                   ELSE IF step.next = "sleep" THEN Goto("sleep")
                   ELSE Failure("status_unexpected", UnexpectedStatus(out.value))
             ok == response.status_code = 200
         IN /\ statusCalls' = statusCalls + 1
            /\ lastResponse' = [status_code |-> response.status_code,
                                text |-> response.text]
            /\ lastStatus' = IF ok THEN response.status ELSE "none"
            /\ processedSeen' = (processedSeen
                                   \/ (ok /\ response.status = "processed"))
            /\ nonTerminal' = IF ok /\ response.status \in {"accepted", "processing"}
                              THEN nonTerminal + 1 ELSE nonTerminal
            /\ attempt' = IF out.kind = "raise" THEN attempt ELSE step.attempt
            /\ pc' = to.pc
            /\ error' = to.error
            /\ failedAt' = to.failedAt
    /\ UNCHANGED <<whisper_hash, extracted_text, retries_taken, result,
                   submitResponse, retrieveOk, llmLast, submitCalls,
                   retrieveCalls, structCalls, llmRequests, llmFailures, waits>>
    /\ UNCHANGED svars

\* await asyncio.sleep(2) returns, and the loop's head is evaluated.
SleepDone ==
    /\ pc = "sleep"
    /\ LET to == LoopHead(attempt)
       IN /\ pc' = to.pc
          /\ error' = to.error
          /\ failedAt' = to.failedAt
    /\ waits' = waits + 1
    /\ UNCHANGED <<whisper_hash, attempt, extracted_text, retries_taken,
                   result, submitResponse, lastResponse, lastStatus,
                   processedSeen, retrieveOk, llmLast, submitCalls,
                   statusCalls, retrieveCalls, structCalls, llmRequests,
                   llmFailures, nonTerminal>>
    /\ UNCHANGED svars

\* extracted_text = await retrieve_text(whisper_hash); on success
\* parse_invoice_items is entered and runs up to its completion request.
Retrieve ==
    /\ pc = "retrieve"
    /\ \E response \in RetrieveResponses :
         LET out == retrieve_text(response)
             to == IF out.kind = "raise" THEN Failure("retrieve", out.exc)
                   ELSE Goto("structure")
         IN /\ retrieveCalls' = retrieveCalls + 1
            /\ lastResponse' = [status_code |-> response.status_code,
                                text |-> response.text]
            /\ retrieveOk' = (response.status_code = 200)
            /\ extracted_text' = IF out.kind = "raise" THEN extracted_text
                                 ELSE out.value
            /\ structCalls' = IF out.kind = "raise" THEN structCalls
                              ELSE structCalls + 1
            /\ pc' = to.pc
            /\ error' = to.error
            /\ failedAt' = to.failedAt
    /\ retries_taken' = 0
    /\ UNCHANGED <<whisper_hash, attempt, result, submitResponse, lastStatus,
                   processedSeen, llmLast, submitCalls, statusCalls,
                   llmRequests, llmFailures, nonTerminal, waits>>
    /\ UNCHANGED svars

\* One completion request of openai_client.chat.completions.create and its
\* end; when create returns or raises, the rest of parse_invoice_items and
\* of extract_invoice.
Structure ==
    /\ pc = "structure"
    /\ \E o \in LlmOutcomes :
         LET c == create(o, retries_taken)
             out == parse_invoice_items(c)
             to == IF c.kind = "retry" THEN Goto("structure")
                   ELSE IF out.kind = "raise" THEN Failure("structure", out.exc)
                   ELSE Goto("done")
         IN /\ llmRequests' = llmRequests + 1
            /\ llmLast' = o
            /\ llmFailures' = IF o.kind = "answer" THEN llmFailures
                              ELSE llmFailures + 1
            /\ retries_taken' = IF c.kind = "retry" THEN retries_taken + 1
                                ELSE retries_taken
            /\ result' = IF to.pc = "done" THEN out.value ELSE result
            /\ pc' = to.pc
            /\ error' = to.error
            /\ failedAt' = to.failedAt
    /\ UNCHANGED <<whisper_hash, attempt, extracted_text, submitResponse,
                   lastResponse, lastStatus, processedSeen, retrieveOk,
                   submitCalls, statusCalls, retrieveCalls, structCalls,
                   nonTerminal, waits>>
    /\ UNCHANGED svars

Next == Submit \/ CheckStatus \/ SleepDone \/ Retrieve \/ Structure

Spec == Init /\ [][Next]_vars

\* Every remote call is answered or fails, and every sleep returns: a
\* request that can take a step eventually takes one.
FairSpec == Spec /\ WF_vars(Next)

(* ----------------------------- the service ----------------------------- *)

\* The process starts with any setting of the two credentials and imports
\* the module; no endpoint has been called.
ServiceInit ==
    /\ RequestInit
    /\ keys \in [ocr : KeyValues, llm : KeyValues]
    /\ server = "importing"
    /\ reqs = [r \in Requests |-> NewRequest]
    /\ health = NoHealth
    /\ probe = NoProbe

startup_checks_only_none(k) ==
    IF k.ocr = "None" THEN "crashed"
    ELSE IF k.llm = "None" THEN "crashed"
    ELSE "serving"

\* if not LLMWHISPERER_API_KEY: raise ValueError(...)
\* if not OPENAI_API_KEY: raise ValueError(...)
\* at import: the exception ends the process before the app serves.
startup_checks(k) ==
    IF ~Truthy(k.ocr) THEN "crashed"
    ELSE IF ~Truthy(k.llm) THEN "crashed"
    ELSE "serving"

\* The module is imported.
Startup ==
    /\ server = "importing"
    /\ server' = startup_checks(keys)
    /\ UNCHANGED <<keys, reqs, health, probe>>
    /\ UNCHANGED rvars

\* GET /health; the handler awaits nothing.
health_check ==
    /\ server = "serving"
    /\ health' = [status |-> "healthy",
                  llmwhisperer_key_set |-> Truthy(keys.ocr),
                  openai_key_set |-> Truthy(keys.llm)]
    /\ UNCHANGED <<keys, server, reqs, probe>>
    /\ UNCHANGED rvars

test_openai_catches_only_timeouts(out) ==
    IF out.kind = "raise"
    THEN IF out.exc.type \in TimeoutErrorClasses \cup {"APITimeoutError"}
         THEN Return("error")
         ELSE Raise(out.exc)
    ELSE Return("success")

\* test_openai from the point where create has returned or raised:
\* `except Exception` turns every exception into a returned value.
test_openai(out) ==
    IF out.kind = "raise" THEN Return("error") ELSE Return("success")

\* POST /test-openai arrives and the completion request is sent.
TestOpenaiCalled ==
    /\ server = "serving"
    /\ probe.pc = "idle"
    /\ probe' = [probe EXCEPT !.pc = "calling"]
    /\ UNCHANGED <<keys, server, reqs, health>>
    /\ UNCHANGED rvars

\* One completion request of the probe ends; the client sends it again,
\* or create returns or raises and test_openai ends.
TestOpenaiEnded ==
    /\ probe.pc = "calling"
    /\ \E o \in LlmOutcomes :
         LET c == create(o, probe.retries_taken)
             out == test_openai(c)
         IN probe' =
              IF c.kind = "retry"
              THEN [probe EXCEPT !.retries_taken = @ + 1]
              ELSE [probe EXCEPT
                      !.pc = "returned",
                      !.last = o.kind,
                      !.raised = (out.kind = "raise"),
                      !.status = IF out.kind = "raise" THEN "none"
                                 ELSE out.value]
    /\ UNCHANGED <<keys, server, reqs, health>>
    /\ UNCHANGED rvars

\* async with httpx.AsyncClient(...) as client: entering the block opens a
\* session.
async_with_enter(open) == open + 1

async_with_exit_leaks_on_raise(open, out) ==
    IF out.kind = "raise" THEN open ELSE open - 1

\* Leaving the block closes the session, whether the block returned or
\* raised `out`.
async_with_exit(open, out) == open - 1

locals_store_as_globals(rs, r, rec) ==
    [q \in Requests |->
        IF q = r THEN rec
        ELSE [rs[q] EXCEPT !.whisper_hash = rec.whisper_hash,
                           !.attempt = rec.attempt]]

\* whisper_hash, max_attempts and attempt are locals of the coroutine of
\* request r: a step of r writes the frame of r only.
locals_store(rs, r, rec) == [rs EXCEPT ![r] = rec]

\* The coroutine enters submit_document, check_status or retrieve_text and
\* awaits the answer; status and retrieve carry the local whisper_hash.
Call(rec, stage) ==
    [rec EXCEPT !.pc = stage,
                !.open = async_with_enter(rec.open),
                !.sent = IF stage = "submitting" THEN rec.sent
                         ELSE rec.whisper_hash]

\* The exception e leaves extract_invoice.
Ended(rec, e) == [rec EXCEPT !.pc = "failed", !.status = ResponseStatus(e)]

\* Control goes where LoopHead or LoopExit says.
Proceed(rec, to) ==
    IF to.pc = "failed" THEN Ended(rec, to.error)
    ELSE IF to.pc = "poll" THEN Call(rec, "polling")
    ELSE Call(rec, "retrieving")

\* POST /extract-invoice arrives: the file is read and submit is sent.
ExtractInvoice(r) ==
    /\ server = "serving"
    /\ reqs[r].pc = "idle"
    /\ reqs' = locals_store(reqs, r, Call(reqs[r], "submitting"))
    /\ UNCHANGED <<keys, server, health, probe>>
    /\ UNCHANGED rvars

\* The submit of request r is answered.
SubmitAnswered(r) ==
    /\ reqs[r].pc = "submitting"
    /\ \E response \in SubmitResponses :
         LET out == submit_document(response)
             closed == [reqs[r] EXCEPT
                          !.open = async_with_exit(reqs[r].open, out),
                          !.issued = IF out.kind = "raise" THEN 0
                                     ELSE response.whisper_hash]
             rec == IF out.kind = "raise" THEN Ended(closed, out.exc)
                    ELSE Proceed([closed EXCEPT !.whisper_hash = out.value,
                                                !.attempt = 0],
                                 LoopHead(0))
         IN reqs' = locals_store(reqs, r, rec)
    /\ UNCHANGED <<keys, server, health, probe>>
    /\ UNCHANGED rvars

\* A status poll of request r is answered. The job of a request is left
\* unfinished for at most MaxConcPolls polls.
StatusAnswered(r) ==
    /\ reqs[r].pc = "polling"
    /\ \E response \in StatusResponses :
         LET out == check_status(response)
             closed == [reqs[r] EXCEPT
                          !.open = async_with_exit(reqs[r].open, out)]
             body == poll_body(out.value, closed.attempt)
             rec == IF out.kind = "raise" THEN Ended(closed, out.exc)
                    ELSE IF body.next = "break"
                    THEN Proceed(closed, LoopExit(closed.attempt))
                    ELSE IF body.next = "sleep"
                    THEN [closed EXCEPT !.pc = "sleeping",
                                        !.attempt = body.attempt,
                                        !.answered = @ + 1]
                    ELSE Ended(closed, UnexpectedStatus(out.value))
         IN /\ rec.pc = "sleeping" => reqs[r].answered < MaxConcPolls
            /\ reqs' = locals_store(reqs, r, rec)
    /\ UNCHANGED <<keys, server, health, probe>>
    /\ UNCHANGED rvars

\* asyncio.sleep(2) of request r returns: the loop's head.
SleepReturned(r) ==
    /\ reqs[r].pc = "sleeping"
    /\ reqs' = locals_store(reqs, r, Proceed(reqs[r], LoopHead(reqs[r].attempt)))
    /\ UNCHANGED <<keys, server, health, probe>>
    /\ UNCHANGED rvars

\* The retrieve of request r is answered.
RetrieveAnswered(r) ==
    /\ reqs[r].pc = "retrieving"
    /\ \E response \in RetrieveResponses :
         LET out == retrieve_text(response)
             closed == [reqs[r] EXCEPT
                          !.open = async_with_exit(reqs[r].open, out)]
             rec == IF out.kind = "raise" THEN Ended(closed, out.exc)
                    ELSE [closed EXCEPT !.pc = "structuring",
                                        !.retries_taken = 0]
         IN reqs' = locals_store(reqs, r, rec)
    /\ UNCHANGED <<keys, server, health, probe>>
    /\ UNCHANGED rvars

\* One completion request of request r ends.
CompletionEnded(r) ==
    /\ reqs[r].pc = "structuring"
    /\ \E o \in LlmOutcomes :
         LET c == create(o, reqs[r].retries_taken)
             out == parse_invoice_items(c)
             rec == IF c.kind = "retry"
                    THEN [reqs[r] EXCEPT !.retries_taken = @ + 1]
                    ELSE IF out.kind = "raise" THEN Ended(reqs[r], out.exc)
                    ELSE [reqs[r] EXCEPT !.pc = "done", !.status = 200]
         IN reqs' = locals_store(reqs, r, rec)
    /\ UNCHANGED <<keys, server, health, probe>>
    /\ UNCHANGED rvars

ServiceNext ==
    \/ Startup
    \/ health_check
    \/ TestOpenaiCalled
    \/ TestOpenaiEnded
    \/ \E r \in Requests : ExtractInvoice(r)
    \/ \E r \in Requests : SubmitAnswered(r)
    \/ \E r \in Requests : StatusAnswered(r)
    \/ \E r \in Requests : SleepReturned(r)
    \/ \E r \in Requests : RetrieveAnswered(r)
    \/ \E r \in Requests : CompletionEnded(r)

ServiceSpec == ServiceInit /\ [][ServiceNext]_vars

(* ------------------------------- claims -------------------------------- *)

\* The request failed with the exception e.
FailedWith(e) == pc = "failed" /\ error = e

\* Every status poll so far was answered 200 with accepted or processing.
AllNonTerminal == statusCalls = nonTerminal

\* The polls so far were k-1 answers accepted or processing, then processed.
EndsProcessed ==
    /\ lastStatus = "processed"
    /\ statusCalls = nonTerminal + 1

\* C1: when submit is answered with a status other than 202, the request
\* fails with an HTTPException carrying that status code and that body, and
\* no status, retrieve or structuring call is made.
C1_SubmitRejected ==
    (submitCalls > 0 /\ submitResponse # NoSubmitResponse
        /\ submitResponse.status_code # 202) =>
        /\ FailedWith(HTTPException(submitResponse.status_code,
               <<"Failed to submit document: ", submitResponse.text>>))
        /\ ResponseStatus(error) = submitResponse.status_code
        /\ statusCalls = 0
        /\ retrieveCalls = 0
        /\ structCalls = 0
        /\ llmRequests = 0

\* A success-looking 200 at submit is rejected like any other non-202.
C1_Witness ==
    /\ failedAt = "submit"
    /\ submitResponse.status_code = 200
    /\ error.status_code = 200

\* C2: while every status poll answers accepted or processing, the request
\* keeps polling, one wait after each poll, through poll 150; after the
\* wait that follows poll 150 it fails with the processing timeout instead
\* of polling again; retrieve and the structuring call are never made.
C2_PollBudget ==
    /\ (whisper_hash # 0 /\ AllNonTerminal) =>
          /\ statusCalls <= 150
          /\ retrieveCalls = 0
          /\ structCalls = 0
          /\ llmRequests = 0
          /\ attempt = statusCalls
          /\ statusCalls < 150 =>
                \/ pc = "poll" /\ waits = statusCalls
                \/ pc = "sleep" /\ waits = statusCalls - 1
          /\ statusCalls = 150 =>
                \/ pc = "sleep" /\ waits = 149
                \/ FailedWith(ProcessingTimeout) /\ waits = 150
    /\ failedAt = "poll_timeout" =>
          /\ AllNonTerminal
          /\ statusCalls = 150
          /\ FailedWith(ProcessingTimeout)

C2_Witness ==
    /\ failedAt = "poll_timeout"
    /\ statusCalls = 150
    /\ waits = 150
    /\ ResponseStatus(error) = 408

\* C3: after k-1 answers accepted or processing and then processed, for any
\* k from 1 to 150, exactly k status calls were made, no further one is
\* made, and retrieve is called, once; no request makes more than 150
\* status calls.
C3_ProcessedThenRetrieve ==
    /\ statusCalls <= 150
    /\ retrieveCalls <= 1
    /\ pc \in {"poll", "sleep"} => lastStatus # "processed"
    /\ EndsProcessed =>
          /\ statusCalls \in 1..150
          /\ attempt = statusCalls - 1
          /\ \/ pc = "retrieve" /\ retrieveCalls = 0
             \/ pc \in {"structure", "done"} /\ retrieveCalls = 1
             \/ pc = "failed" /\ retrieveCalls = 1
                   /\ failedAt \in {"retrieve", "structure"}

\* The 150th poll is the one answered processed, and retrieve was called.
C3_Witness ==
    /\ EndsProcessed
    /\ statusCalls = 150
    /\ retrieveCalls = 1

\* C4: a status value outside accepted, processing and processed (a missing
\* field included) fails the request at once with the unexpected-status
\* error: the poll that saw it is the last, no wait follows it, and neither
\* retrieve nor the structuring call is made.
C4_UnexpectedStatus ==
    lastStatus \notin {"none", "accepted", "processing", "processed"} =>
        /\ FailedWith(UnexpectedStatus(lastStatus))
        /\ failedAt = "status_unexpected"
        /\ ResponseStatus(error) = 500
        /\ statusCalls = nonTerminal + 1
        /\ waits = nonTerminal
        /\ retrieveCalls = 0
        /\ structCalls = 0
        /\ llmRequests = 0

\* An answer without a status field, after earlier polls that were waited on.
C4_Witness ==
    /\ failedAt = "status_unexpected"
    /\ lastStatus = "None"
    /\ statusCalls > 1
    /\ waits = statusCalls - 1

\* C5 as stated: no failure of submit, of a status poll, of retrieve or of
\* the structuring call carries the status code of the processing timeout.
C5_DedicatedTimeoutCode ==
    (pc = "failed" /\ failedAt # "poll_timeout") =>
        ResponseStatus(error) # ProcessingTimeout.status_code

\* C5, amended: the processing timeout is reported with status 408 and the
\* detail "Processing timeout". Every other failure differs from it in its
\* detail, and carries 408 only when it is a failure of submit, of a status
\* poll or of retrieve that the OCR service itself answered with 408; the
\* failures the program reports with codes of its own (unexpected status,
\* the structuring call's, an unhandled exception) never carry 408.
C5_TimeoutDistinguishable ==
    /\ failedAt = "poll_timeout" =>
          /\ FailedWith(ProcessingTimeout)
          /\ ResponseStatus(error) = 408
    /\ (pc = "failed" /\ failedAt # "poll_timeout") =>
          /\ error.detail # <<"Processing timeout">>
          /\ ResponseStatus(error) = 408 =>
                \/ failedAt = "submit" /\ submitResponse.status_code = 408
                \/ failedAt \in {"status", "retrieve"}
                      /\ lastResponse.status_code = 408
          /\ failedAt \in {"status_unexpected", "structure"} =>
                ResponseStatus(error) \in {500, 502, 504}

\* A status poll the OCR service answered with 408: the same code as the
\* timeout's, told apart by the detail.
C5_Witness ==
    /\ failedAt = "status"
    /\ lastResponse.status_code = 408
    /\ ResponseStatus(error) = 408
    /\ error.detail[1] = "Failed to check status: "

\* C6: the stages run in the order submit, status polls, retrieve,
\* structure, result, each at most once apart from the polls: a status call
\* only after submit was answered 202 with a handle, retrieve only after a
\* poll answered processed, the structuring call only after retrieve was
\* answered 200, and a result with success = true only after the LLM
\* service answered the structuring call with JSON.
C6_StagesInOrder ==
    /\ submitCalls <= 1 /\ retrieveCalls <= 1 /\ structCalls <= 1
    /\ statusCalls > 0 =>
          /\ submitCalls = 1
          /\ submitResponse.status_code = 202
          /\ whisper_hash \in Handles
    /\ (retrieveCalls > 0 \/ pc = "retrieve") =>
          /\ statusCalls > 0
          /\ processedSeen
          /\ lastStatus = "processed"
    /\ pc \in {"submit", "poll", "sleep"} => retrieveCalls = 0
    /\ (structCalls > 0 \/ pc = "structure") =>
          /\ retrieveCalls = 1
          /\ retrieveOk
          /\ extracted_text = lastResponse.text
    /\ pc \in {"submit", "poll", "sleep", "retrieve"} =>
          structCalls = 0 /\ llmRequests = 0
    /\ llmRequests > 0 => structCalls = 1
    /\ (pc = "done" \/ result.success) =>
          /\ pc = "done"
          /\ result = [success |-> TRUE, data |-> llmLast.text]
          /\ llmLast.kind = "answer"
          /\ llmLast.text = "{json}"
          /\ structCalls = 1

\* A request that went through every stage, with polls that had to wait.
C6_Witness ==
    /\ pc = "done"
    /\ result.success
    /\ statusCalls >= 3
    /\ retrieveCalls = 1
    /\ llmRequests = 1

\* A stage of the request has failed: the request ended in an exception,
\* or a completion request of the structuring call ended without an answer.
StageFailed == pc = "failed" \/ llmFailures > 0

RemoteCalls == submitCalls + statusCalls + retrieveCalls + llmRequests

\* C7: a failure at any stage is terminal: once a stage has failed no
\* further remote call is made, the failed stage is not invoked again, and
\* no success result is returned.
C7_FailureIsTerminal ==
    [][StageFailed => (RemoteCalls' = RemoteCalls /\ pc' # "done")]_vars

\* C8: one call of parse_invoice_items sends at most one completion request
\* to the LLM service.
C8_OneCompletionRequest == llmRequests <= structCalls

\* C9: when the LLM service does not answer the structuring call within
\* its time window, the request fails with the gateway timeout, status 504.
C9_TimeoutIsGatewayTimeout ==
    (failedAt = "structure" /\ llmLast.kind = "timeout") =>
        /\ FailedWith(GatewayTimeout)
        /\ ResponseStatus(error) = 504

\* C10: a connection failure or a rate-limit answer (429) of the LLM call
\* is reported as the service-unavailable failure, never with the generic
\* failure's status code 500.
C10_TransientIsServiceUnavailable ==
    (failedAt = "structure"
        /\ (llmLast.kind = "connection"
              \/ (llmLast.kind = "status" /\ llmLast.status = 429))) =>
        /\ FailedWith(ServiceUnavailable)
        /\ ResponseStatus(error) # 500

\* C11: when the LLM service answers the structuring call with text that is
\* not JSON, the request fails with the parse failure (json.loads raises,
\* nothing catches it, the caller is answered 500) and no result, with
\* success = true or with any data, is returned.
C11_NonJsonAnswerFails ==
    (llmLast.kind = "answer" /\ llmLast.text # "{json}") =>
        /\ FailedWith(PlainException("JSONDecodeError", <<"Expecting value">>))
        /\ failedAt = "structure"
        /\ ResponseStatus(error) = 500
        /\ result = NoResult

C11_Witness ==
    /\ failedAt = "structure"
    /\ error.type = "JSONDecodeError"
    /\ llmLast = [kind |-> "answer", status |-> 200, text |-> "not json"]
    /\ ~result.success

\* C12: when submit is answered 202 with a body that holds no whisper_hash,
\* the request fails there (the lookup raises KeyError, the caller is
\* answered 500) and no status, retrieve or structuring call is made; a
\* status call is only ever made with a handle the submit answer held.
C12_MissingHandleFails ==
    /\ (submitCalls > 0 /\ submitResponse.status_code = 202
           /\ ~submitResponse.has_hash) =>
          /\ FailedWith(PlainException("KeyError", <<"whisper_hash">>))
          /\ failedAt = "submit"
          /\ ResponseStatus(error) = 500
          /\ statusCalls = 0
          /\ retrieveCalls = 0
          /\ structCalls = 0
          /\ llmRequests = 0
    /\ (statusCalls > 0 \/ pc \in {"poll", "sleep", "retrieve"}) =>
          /\ submitResponse.has_hash
          /\ whisper_hash \in Handles

C12_Witness ==
    /\ failedAt = "submit"
    /\ error.type = "KeyError"
    /\ submitResponse.status_code = 202
    /\ statusCalls = 0

\* C13: a status poll answered with a status code other than 200 fails the
\* request with that code and that body, and neither a further status call
\* nor retrieve follows; a retrieve answered with a status code other than
\* 200 fails the request with that code and that body, and the structuring
\* call is never made.
C13_UpstreamFailureSurfaced ==
    /\ (statusCalls > 0 /\ retrieveCalls = 0
           /\ lastResponse.status_code \notin {0, 200}) =>
          /\ FailedWith(HTTPException(lastResponse.status_code,
                 <<"Failed to check status: ", lastResponse.text>>))
          /\ failedAt = "status"
          /\ ResponseStatus(error) = lastResponse.status_code
          /\ structCalls = 0
          /\ llmRequests = 0
    /\ (retrieveCalls > 0 /\ lastResponse.status_code \notin {0, 200}) =>
          /\ FailedWith(HTTPException(lastResponse.status_code,
                 <<"Failed to retrieve text: ", lastResponse.text>>))
          /\ failedAt = "retrieve"
          /\ ResponseStatus(error) = lastResponse.status_code
          /\ structCalls = 0
          /\ llmRequests = 0

\* Retrieve answered 500 after polls that had to wait.
C13_Witness ==
    /\ failedAt = "retrieve"
    /\ lastResponse.status_code = 500
    /\ ResponseStatus(error) = 500
    /\ statusCalls >= 2

Terminated == pc \in {"done", "failed"}

\* C18: when every remote call eventually returns an answer or an error,
\* every request ends, after at most 150 status calls, in exactly one
\* outcome: a success result or a failure, after which nothing more happens.
C18_Terminates ==
    /\ <>Terminated
    /\ [](statusCalls <= 150)
    /\ [](pc = "done" => (result.success /\ error = NoError))
    /\ [](pc = "failed" => (~result.success /\ error # NoError))
    /\ [][~Terminated]_vars

\* A request that ended after using its whole poll budget.
C18_Witness ==
    /\ Terminated
    /\ statusCalls = 150
    /\ pc = "done"

\* C19: a failed request never reaches its caller with a 2xx transport
\* status.
C19_FailureNeverSuccessStatus ==
    pc = "failed" => ResponseStatus(error) \notin 200..299

\* C20: the waits of the polling loop are the polls answered accepted or
\* processing: none before the first status call, exactly one between two
\* consecutive status calls, none after a processed or unexpected answer
\* or a failed poll, and the processing timeout only after the wait that
\* follows the 150th such answer.
C20_OneWaitPerNonTerminalPoll ==
    /\ statusCalls = 0 => waits = 0
    /\ pc = "sleep" =>
          /\ waits = nonTerminal - 1
          /\ lastStatus \in {"accepted", "processing"}
    /\ pc # "sleep" => waits = nonTerminal
    /\ pc = "poll" => waits = statusCalls
    /\ lastStatus \notin {"accepted", "processing"} /\ statusCalls > 0 =>
          /\ pc # "sleep"
          /\ waits = statusCalls - 1
    /\ failedAt = "poll_timeout" =>
          /\ nonTerminal = 150
          /\ waits = 150

\* The polls [accepted, processing, processed]: three calls, two waits.
C20_Witness ==
    /\ pc = "done"
    /\ statusCalls = 3
    /\ nonTerminal = 2
    /\ waits = 2

\* C14: concurrent requests are independent. Under every interleaving of
\* the requests' steps, the attempt counter of a request equals the number
\* of its own status polls answered accepted or processing (no other
\* request changes it), the handle it holds is the one its own submit was
\* answered with, every status and retrieve call it sent carried that
\* handle, and no step changes the state of two requests.
OwnCounterAndHandle ==
    \A r \in Requests :
        /\ reqs[r].attempt = reqs[r].answered
        /\ reqs[r].whisper_hash = reqs[r].issued
        /\ reqs[r].sent \in {0, reqs[r].issued}
        /\ reqs[r].pc \in {"polling", "retrieving"}
               => reqs[r].sent = reqs[r].issued /\ reqs[r].sent # 0
        /\ reqs[r].pc \in {"submitting", "idle"}
               => reqs[r].sent = 0 /\ reqs[r].attempt = 0

\* A step that changes the record of one request leaves the record of
\* every other request as it was.
OneRequestPerStep ==
    \A r, q \in Requests :
        reqs'[r] # reqs[r] /\ q # r => reqs'[q] = reqs[q]

C14_RequestsIndependent ==
    /\ []OwnCounterAndHandle
    /\ [][OneRequestPerStep]_vars

\* Two requests in flight with different handles and different attempt
\* counters, each polling with its own handle.
C14_Witness ==
    \E r, q \in Requests :
        /\ reqs[r].pc = "polling" /\ reqs[q].pc = "retrieving"
        /\ reqs[r].issued # reqs[q].issued
        /\ reqs[r].sent = reqs[r].issued /\ reqs[q].sent = reqs[q].issued
        /\ reqs[r].attempt = 2 /\ reqs[q].attempt = 1

\* C15: every OCR client session opened for submit, a status poll or
\* retrieve is released on every exit path. A request holds at most one
\* open session, it holds one exactly while one of these calls is
\* awaited, and a request that ended with success or failure holds none.
C15_SessionsReleased ==
    \A r \in Requests :
        /\ reqs[r].open \in {0, 1}
        /\ reqs[r].open = 1
               <=> reqs[r].pc \in {"submitting", "polling", "retrieving"}
        /\ reqs[r].pc \in {"done", "failed"} => reqs[r].open = 0

\* One request ended by an error raised inside a status or retrieve call
\* (the upstream answered 400), another one
\* ended with success, and neither holds a session.
C15_Witness ==
    \E r, q \in Requests :
        /\ reqs[r].pc = "failed" /\ reqs[r].status = 400
        /\ reqs[r].sent # 0
        /\ reqs[q].pc = "done"
        /\ reqs[r].open = 0 /\ reqs[q].open = 0

\* An endpoint has been served.
Served ==
    \/ \E r \in Requests : reqs[r] # NewRequest
    \/ health # NoHealth
    \/ probe # NoProbe

\* C16: if a credential is absent or empty at startup, startup fails and
\* no request is ever served; whenever the service serves, both
\* credentials are set, and every answer of the health probe reports both
\* keys as set.
C16_NoServiceWithoutCredentials ==
    /\ (~Truthy(keys.ocr) \/ ~Truthy(keys.llm))
           => server # "serving" /\ ~Served
    /\ (server = "serving" \/ Served)
           => Truthy(keys.ocr) /\ Truthy(keys.llm)
    /\ health # NoHealth
           => health.llmwhisperer_key_set /\ health.openai_key_set

\* Startup has failed on an empty LLM key.
C16_Witness ==
    /\ server = "crashed"
    /\ keys.ocr = "key" /\ keys.llm = ""
    /\ ~Served

\* C17: the diagnostic probe never raises. However its completion request
\* ends, test_openai returns a value whose status is success or error,
\* and it sends no call to the OCR service.
C17_ProbeNeverRaises ==
    /\ ~probe.raised
    /\ probe.pc = "returned" => probe.status \in {"success", "error"}
    /\ probe.pc = "returned" /\ probe.last = "answer"
           => probe.status = "success"
    /\ probe.pc = "returned" /\ probe.last # "answer"
           => probe.status = "error"
    /\ probe.ocr_calls = 0

\* The probe returned error after the LLM client gave up on a connection
\* that failed three times.
C17_Witness ==
    /\ probe.pc = "returned"
    /\ probe.status = "error"
    /\ probe.last = "connection"
    /\ probe.retries_taken = max_retries

====
